---- MODULE Spec2Model ----
(***************************************************************************)
(* SOTE admin panel (GitHub-based CMS): the session state of the panel,    *)
(* the remote document store it commits to, and the asynchronous           *)
(* operations (login probe, Load-all, record save, record delete, settings *)
(* save) as they are split by their awaits.                                *)
(***************************************************************************)
EXTENDS Integers, Sequences, FiniteSets, TLC

\* ------------------------------------------------------------------ bounds
\* Asynchronous operations that may be in flight at the same time.
MaxInflight == 2
\* Steps the user (page load, login, logout, save, delete) and the external
\* editor take in a run.
MaxOps == 3
\* Last value the clock (Date.now()) reaches.
MaxClock == 3
\* Records of the longest collection document a session starts from.
MaxLen == 2
\* Entries of the longest stats list of a configuration a session starts from.
MaxStats == 4
\* Characters of the longest text typed into a form.
MaxText == 2

\* ------------------------------------------------------ values and domains
Names == {"siteConfig", "news", "projects", "events"}
Kinds == {"news", "projects", "events"}
Slots == 1..MaxInflight
\* A body object per cache entry plus one per operation in flight.
Objs == 1..(MaxInflight + 1)

\* The credentials of the initial state object: empty strings.
NoCred == ""
Creds == {"good", "bad"}
\* Credentials the store accepts.
ValidCreds == {"good"}

\* The value of an empty hidden id field of a record form ('' in the code).
NoId == 0
\* A text is the sequence of its code points. The text of the documents that
\* exist before the session ("A"), and the empty text.
SeedText == << 65 >>
NoText == << >>
\* The record of a collection document that exists before the session.
SeedRecord == [id |-> 1, title |-> SeedText]
\* The first value the clock shows in the session: after the seed record's id.
Epoch == SeedRecord.id + 1
\* The record an external editor adds to or removes from a collection.
ExtRecord == [id |-> 9, title |-> SeedText]
\* What the user types in the title field, and in the site name field.
Titles == { << 66 >> }
\* colors.primaryLight: the value saveSettings falls back to, and two others.
DefaultLight == "#2D7A5F"
SeedLight == "#111111"
ExtLight == "#999999"
\* An absent field of the configuration (undefined in the code).
Undefined == "undefined"

\* The stat inputs of the settings form (stat1Value .. stat3Value).
StatInputs == 3
\* What the inputs hold before loadSettings fills them: empty strings.
EmptyStats == [i \in 1..StatInputs |-> 0]
\* The stats of the configuration that exists before the session.
SeedStats == [i \in 1..StatInputs |-> 1]

SeedBody(n) ==
    IF n = "siteConfig"
    THEN [siteName |-> SeedText, primaryLight |-> SeedLight, stats |-> SeedStats]
    ELSE << SeedRecord >>

\* What `x?.data?.articles || []` and `x?.data || {}` give for a null entry.
EmptyBody(n) ==
    IF n = "siteConfig" THEN [siteName |-> NoText, primaryLight |-> Undefined, stats |-> << >>]
    ELSE << >>

\* The published field of a record: true, false, or absent.
PublishedValues == {"true", "false", Undefined}
\* The records the panels are shown in the runs that look at what they show.
ShownRecords == [id : {SeedRecord.id, Epoch}, published : PublishedValues]
\* No record has been shown.
NothingShown ==
    [grid |-> [seen |-> FALSE, id |-> NoId, published |-> Undefined, badge |-> ""],
     form |-> [seen |-> FALSE, id |-> NoId, published |-> Undefined, checked |-> FALSE],
     site |-> [seen |-> FALSE, id |-> NoId, published |-> Undefined, rendered |-> FALSE]]

\* The public content loader: the files it fetches, what a file can hold (a
\* JSON value; "false" stands for the values JavaScript takes as false), no
\* file, and a call of fetchContent that has not been made.
Files == {"news.json", "events.json"}
Data == {"first", "second", "false"}
NoFile == "none"
Null == "null"
IdleCall == [at |-> "idle", file |-> NoFile, result |-> Null, requested |-> FALSE,
             known |-> Undefined, afterFailure |-> FALSE]
NoLoader ==
    [cache |-> [f \in Files |-> Undefined],
     site |-> [f \in Files |-> NoFile],
     calls |-> [s \in Slots |-> IdleCall],
     succeeded |-> [f \in Files |-> Undefined],
     failed |-> {}]

VARIABLES
    github,         \* state.github: the credentials in memory
    localStorage,   \* the bundle stored under sote_admin_auth, or NoCred
    screen,         \* "login" or "dashboard": which of the two panes is shown
    content,        \* state.content: name -> [obj, sha]; obj = 0 is null
    heap,           \* the body objects state.content and the operations refer to
    images,         \* state.images
    syncStatus,     \* the class of #syncStatus
    toast,          \* the last toast shown: [type, msg]
    formId,         \* the hidden id field of the three record forms
    formOpen,       \* whether the modal of each record form is open
    deleteContext,  \* deleteContext and whether the delete modal is open
    now,            \* Date.now() as it was last read
    ops,            \* the asynchronous operations in flight, by slot
    store,          \* the remote store: name -> the bodies written, oldest first
    storeImages,    \* the remote images/ directory: present or not, and its files
    probed,         \* credentials a probe of this page session has validated
    formStats,      \* the values of the stat inputs of the settings form
    lastRead,       \* how the last read of each document in this page ended
    focus,          \* the document the user works on in this run
    shown,          \* what the record grid, the record form and the public page
                    \* last showed of a record
    loader,         \* the public content loader: its cache, its calls of
                    \* fetchContent and the files the site serves
    started         \* the steps the user and the external editor have taken

vars == << github, localStorage, screen, content, heap, images, syncStatus, toast,
           formId, formOpen, deleteContext, now, ops, store, storeImages, probed,
           formStats, lastRead, focus, loader, shown, started >>

\* ------------------------------------------------------------ the store
Rev(n) == Len(store[n])
Exists(n) == Len(store[n]) > 0
RemoteBody(n) == store[n][Len(store[n])]

\* The store checks the revision a write presents against the one it holds;
\* a write without a revision creates a path that does not exist.
StoreAccepts(n, sha) == sha = Rev(n)

\* ------------------------------------------------------------ the codec
\* The UTF-8 bytes of a code point of the basic plane: what
\* unescape(encodeURIComponent(c)) gives, one character per byte.
Utf8(cp) ==
    IF cp < 128 THEN << cp >>
    ELSE IF cp < 2048 THEN << 192 + (cp \div 64), 128 + (cp % 64) >>
    ELSE << 224 + (cp \div 4096), 128 + ((cp \div 64) % 64), 128 + (cp % 64) >>

RECURSIVE Utf8Bytes(_)
Utf8Bytes(text) ==
    IF text = << >> THEN << >> ELSE Utf8(Head(text)) \o Utf8Bytes(Tail(text))

\* The inverse, as the store reads the bytes of a committed file.
RECURSIVE Utf8Decode(_)
Utf8Decode(b) ==
    IF b = << >> THEN << >>
    ELSE IF b[1] < 128 THEN << b[1] >> \o Utf8Decode(SubSeq(b, 2, Len(b)))
    ELSE IF b[1] < 224
         THEN << (b[1] - 192) * 64 + (b[2] - 128) >> \o Utf8Decode(SubSeq(b, 3, Len(b)))
         ELSE << (b[1] - 224) * 4096 + (b[2] - 128) * 64 + (b[3] - 128) >>
              \o Utf8Decode(SubSeq(b, 4, Len(b)))

\* The padding character of base64, as a digit.
Pad == 64

\* btoa: three bytes to four digits of six bits, padded at the end.
RECURSIVE Btoa(_)
Btoa(b) ==
    IF b = << >> THEN << >>
    ELSE IF Len(b) = 1
         THEN << b[1] \div 4, (b[1] % 4) * 16, Pad, Pad >>
    ELSE IF Len(b) = 2
         THEN << b[1] \div 4, (b[1] % 4) * 16 + (b[2] \div 16), (b[2] % 16) * 4, Pad >>
    ELSE << b[1] \div 4, (b[1] % 4) * 16 + (b[2] \div 16),
            (b[2] % 16) * 4 + (b[3] \div 64), b[3] % 64 >>
         \o Btoa(SubSeq(b, 4, Len(b)))

\* atob: four digits to three bytes, fewer at the padding; the result is a
\* string with one character per byte.
RECURSIVE Atob(_)
Atob(e) ==
    IF e = << >> THEN << >>
    ELSE ( << e[1] * 4 + (e[2] \div 16) >>
           \o (IF e[3] = Pad THEN << >> ELSE << (e[2] % 16) * 16 + (e[3] \div 4) >>)
           \o (IF e[4] = Pad THEN << >> ELSE << (e[3] % 4) * 64 + e[4] >>) )
         \o Atob(SubSeq(e, 5, Len(e)))

\* saveContent: the content field of the PUT for a text of the document.
EncodeText(text) == Btoa(Utf8Bytes(text))

\* The text of the file the store commits for a content field.
CommitText(e) == Utf8Decode(Atob(e))

\* fetchContent: the store sends the bytes of the file in base64, and
\* JSON.parse is given atob's string as it is.
FetchText(text) == Atob(Btoa(Utf8Bytes(text)))

\* The document the store holds after a PUT of body: each of its texts
\* goes through the encoding of saveContent and the store's commit.
Committed(n, body) ==
    IF n = "siteConfig" THEN [body EXCEPT !.siteName = CommitText(EncodeText(@))]
    ELSE [i \in 1..Len(body) |-> [body[i] EXCEPT !.title = CommitText(EncodeText(@))]]

\* The document fetchContent returns for the document the store holds.
Fetched(n, doc) ==
    IF n = "siteConfig" THEN [doc EXCEPT !.siteName = FetchText(@)]
    ELSE [i \in 1..Len(doc) |-> [doc[i] EXCEPT !.title = FetchText(@)]]

\* ------------------------------------------------ the collection engine
Ids(S) == { S[i].id : i \in 1..Len(S) }

\* findIndex: the first index whose record has the id, 0 for -1.
FindIndex(S, id) ==
    IF id \in Ids(S)
    THEN CHOOSE i \in 1..Len(S) : S[i].id = id /\ \A j \in 1..(i - 1) : S[j].id # id
    ELSE 0

\* The same with push for unshift: a new record goes to the end.
UpsertAppend(S, r) ==
    IF FindIndex(S, r.id) > 0
    THEN [S EXCEPT ![FindIndex(S, r.id)] = r]
    ELSE S \o << r >>

\* The same with the replaced record taken out and the new one put first.
UpsertToFront(S, r) == << r >> \o SelectSeq(S, LAMBDA a : a.id # r.id)

\* The same without the findIndex: every saved record is put first.
UpsertAlwaysNew(S, r) == << r >> \o S

\* articles[existingIndex] = article, or articles.unshift(article).
Upsert(S, r) ==
    IF FindIndex(S, r.id) > 0
    THEN [S EXCEPT ![FindIndex(S, r.id)] = r]
    ELSE << r >> \o S

\* filter with the test the other way round: the matching records are kept.
RemoveOthers(S, id) ==
    LET keep == { i \in 1..Len(S) : S[i].id = id }
    IN [n \in 1..Cardinality(keep) |->
          S[CHOOSE i \in keep : Cardinality({ j \in keep : j <= i }) = n]]

\* The same with splice(findIndex, 1) for filter: the first record of the id
\* is taken out.
RemoveFirst(S, id) ==
    IF FindIndex(S, id) = 0 THEN S
    ELSE [j \in 1..(Len(S) - 1) |-> IF j < FindIndex(S, id) THEN S[j] ELSE S[j + 1]]

\* articles.filter(a => a.id !== id)
RemoveById(S, id) == SelectSeq(S, LAMBDA a : a.id # id)

\* The id a record form submits: the hidden field, or one made from the clock,
\* which shows t.
RecordId(k, t) == IF formId[k] # NoId THEN formId[k] ELSE t

\* saveSettings: the form's values over the configuration; primaryLight is kept,
\* or set to its default when the configuration has none; stats is made anew
\* from the stat inputs.
ApplySettings(config, name) ==
    [siteName |-> name,
     primaryLight |-> IF config.primaryLight # Undefined
                      THEN config.primaryLight ELSE DefaultLight,
     stats |-> formStats]

\* An edit made outside the session: the external record is added to or
\* removed from a collection, primaryLight is changed in the configuration.
ExternalBody(n, old) ==
    IF n = "siteConfig"
    THEN [old EXCEPT !.primaryLight = IF old.primaryLight = ExtLight
                                      THEN SeedLight ELSE ExtLight]
    ELSE IF ExtRecord.id \in Ids(old) THEN RemoveById(old, ExtRecord.id)
         ELSE << ExtRecord >> \o old

\* ------------------------------------------------------------ the cache
NullEntry == [obj |-> 0, sha |-> 0]
IdleOp == [kind |-> "idle"]
NoToast == [type |-> "none", msg |-> ""]
NoDelete == [type |-> "", id |-> NoId, open |-> FALSE]

\* The entry of name n in the cache c over the objects h, as a value: null, or
\* the body and the revision it holds.
View(c, h, n) ==
    IF c[n].obj = 0
    THEN [loaded |-> FALSE, body |-> EmptyBody(n), sha |-> 0]
    ELSE [loaded |-> TRUE, body |-> h[n][c[n].obj], sha |-> c[n].sha]

\* state.content[n] as it is now.
CacheView(n) == View(content, heap, n)

\* The objects of name n that operations of o hold (the array or the
\* configuration object a save took from the cache).
HeldBy(n, o) ==
    { o[s].obj : s \in { t \in Slots : /\ o[t].kind \in {"save", "settings"}
                                       /\ o[t].name = n
                                       /\ o[t].obj # 0 } }

\* Objects neither the cache c nor an operation of o refers to are collected.
Collect(h, c, o) ==
    [n \in Names |-> [i \in Objs |->
        IF i \in HeldBy(n, o) \cup {c[n].obj} THEN h[n][i] ELSE EmptyBody(n)]]

\* The object a new body of name n is put in, with the operations o going on.
FreshObj(n, o) ==
    CHOOSE i \in Objs \ HeldBy(n, o) : \A j \in Objs \ HeldBy(n, o) : i <= j

FreeSlots == { s \in Slots : ops[s].kind = "idle" }
NewSlot == CHOOSE s \in FreeSlots : \A t \in FreeSlots : s <= t

Init ==
    /\ github = NoCred
    /\ localStorage = NoCred
    /\ screen = "login"
    /\ content = [n \in Names |-> NullEntry]
    /\ heap = [n \in Names |-> [i \in Objs |-> EmptyBody(n)]]
    /\ images = {}
    /\ syncStatus = "init"
    /\ toast = NoToast
    /\ formId = [k \in Kinds |-> NoId]
    /\ formOpen = [k \in Kinds |-> FALSE]
    /\ deleteContext = NoDelete
    /\ now = Epoch
    /\ ops = [s \in Slots |-> IdleOp]
    /\ \E present \in {Names, {}} :
          store = [n \in Names |-> IF n \in present THEN << SeedBody(n) >> ELSE << >>]
    /\ storeImages = [present |-> TRUE, files |-> {"logo.png"}]
    /\ probed = {}
    /\ formStats = EmptyStats
    /\ lastRead = [n \in Names |-> "none"]
    /\ focus \in Names
    /\ shown = NothingShown
    /\ loader = NoLoader
    /\ started = 0

\* ------------------------------------------------- page start and session
\* loadAllContent up to its first await: the four reads are sent together,
\* each with the credentials in memory.
LoadOp(c) ==
    [kind |-> "load", phase |-> "reads", cred |-> c, res |-> "", files |-> {},
     order |-> << >>,
     reads |-> [n \in Names |-> [st |-> "sent", res |-> "", body |-> EmptyBody(n), sha |-> 0]]]

\* A page load: the script's state object is built anew and the
\* DOMContentLoaded handler runs; stored credentials go to memory and the
\* dashboard is shown, without a probe.
PageLoad ==
    /\ started < MaxOps
    /\ started' = started + 1
    /\ content' = [n \in Names |-> NullEntry]
    /\ heap' = [n \in Names |-> [i \in Objs |-> EmptyBody(n)]]
    /\ images' = {}
    /\ toast' = NoToast
    /\ formId' = [k \in Kinds |-> NoId]
    /\ formOpen' = [k \in Kinds |-> FALSE]
    /\ deleteContext' = NoDelete
    /\ probed' = {}
    /\ formStats' = EmptyStats
    /\ lastRead' = [n \in Names |-> "none"]
    /\ IF localStorage # NoCred
       THEN /\ github' = localStorage
            /\ screen' = "dashboard"
            /\ syncStatus' = "loading"
            /\ ops' = [s \in Slots |-> IF s = 1 THEN LoadOp(localStorage) ELSE IdleOp]
       ELSE /\ github' = NoCred
            /\ screen' = "login"
            /\ syncStatus' = "init"
            /\ ops' = [s \in Slots |-> IdleOp]
    /\ UNCHANGED << localStorage, now, store, storeImages, focus, loader, shown >>

\* handleLogin up to its await: the probe is sent with the form's credentials.
HandleLogin(c) ==
    /\ started < MaxOps
    /\ started' = started + 1
    /\ screen = "login"
    /\ FreeSlots # {}
    /\ ops' = [ops EXCEPT ![NewSlot] = [kind |-> "login", phase |-> "sent", cred |-> c]]
    /\ UNCHANGED << github, localStorage, screen, content, heap, images, syncStatus,
                    toast, formId, formOpen, deleteContext, now, store, storeImages, probed, lastRead, formStats, focus, loader, shown >>

\* handleLogin without its test of response.ok: whatever the probe is
\* answered, the credentials are kept and the dashboard is shown.
LoginOkUnchecked(s) ==
    /\ ops[s].kind = "login"
    /\ github' = ops[s].cred
    /\ localStorage' = ops[s].cred
    /\ probed' = probed \cup {ops[s].cred}
    /\ screen' = "dashboard"
    /\ syncStatus' = "loading"
    /\ ops' = [ops EXCEPT ![s] = LoadOp(ops[s].cred)]
    /\ UNCHANGED << content, heap, images, toast, formId, formOpen, deleteContext, now, store,
                    storeImages, lastRead, formStats, focus, loader, shown, started >>

\* The probe is answered ok: the credentials are kept in memory and in local
\* storage, and showDashboard starts Load-all.
LoginOk(s) ==
    /\ ops[s].kind = "login"
    /\ ops[s].cred \in ValidCreds
    /\ github' = ops[s].cred
    /\ localStorage' = ops[s].cred
    /\ probed' = probed \cup {ops[s].cred}
    /\ screen' = "dashboard"
    /\ syncStatus' = "loading"
    /\ ops' = [ops EXCEPT ![s] = LoadOp(ops[s].cred)]
    /\ UNCHANGED << content, heap, images, toast, formId, formOpen, deleteContext, now, store,
                    storeImages, lastRead, formStats, focus, loader, shown, started >>

\* The probe is answered not ok, or fails in transport: only the login error
\* text changes.
LoginFail(s) ==
    /\ ops[s].kind = "login"
    /\ ops' = [ops EXCEPT ![s] = IdleOp]
    /\ UNCHANGED << github, localStorage, screen, content, heap, images, syncStatus,
                    toast, formId, formOpen, deleteContext, now, store, storeImages, probed, lastRead, formStats, focus, loader, shown, started >>

Logout ==
    /\ started < MaxOps
    /\ started' = started + 1
    /\ screen = "dashboard"
    /\ localStorage' = NoCred
    /\ github' = NoCred
    /\ screen' = "login"
    /\ UNCHANGED << content, heap, images, syncStatus, toast, formId, formOpen, deleteContext,
                    now, ops, store, storeImages, probed, lastRead, formStats, focus, loader, shown >>

\* ------------------------------------------------------------- Load-all
\* The document this run writes to; nobody writes to the other three, so when
\* their reads are answered makes no difference. A run that works on no
\* document follows each of the four reads.
Worked == IF focus \in Names THEN {focus} ELSE Names

\* How a read may be answered: with the document and its revision, with a
\* 404, or not at all (an error status, or a transport error). In this model
\* only requests for the worked document fail while the credentials are good.
ReadAnswers(c, n) ==
    IF c \notin ValidCreds THEN {"fail"}
    ELSE (IF Exists(n) THEN {"ok"} ELSE {"notfound"})
         \cup (IF n \in Worked THEN {"fail"} ELSE {})

\* The read as fetchContent leaves it.
ReadResult(n, res) ==
    [st |-> "done", res |-> res,
     body |-> IF res = "ok" THEN Fetched(n, RemoteBody(n)) ELSE EmptyBody(n),
     sha |-> IF res = "ok" THEN Rev(n) ELSE 0]

\* One fetchContent of Load-all returns (a read of a document that is written
\* to in this run; the others return in LoadAssign).
ReadDone(s, n) ==
    /\ ops[s].kind = "load"
    /\ ops[s].phase = "reads"
    /\ n \in Worked
    /\ ops[s].reads[n].st = "sent"
    /\ \E res \in ReadAnswers(ops[s].cred, n) :
          ops' = [ops EXCEPT ![s].reads[n] = ReadResult(n, res),
                             ![s].order = Append(@, n)]
    /\ UNCHANGED << github, localStorage, screen, content, heap, images, syncStatus,
                    toast, formId, formOpen, deleteContext, now, store, storeImages, probed, lastRead, formStats, focus, loader, shown, started >>

\* What fetchContent returned for a read: {data, sha}, or null.
ReadEntry(r, i) == IF r.res = "ok" THEN [obj |-> i, sha |-> r.sha] ELSE NullEntry

IsKind(n) == n \in Kinds

\* The results with those of the three collections taken in the order in which
\* their reads returned, for the order of the paths in the call.
PromiseAllByArrival(reads, order) ==
    LET arrived == SelectSeq(order, IsKind)
    IN IF Len(arrived) < 3 THEN reads
       ELSE [n \in Names |->
               IF n = "news" THEN reads[arrived[1]]
               ELSE IF n = "projects" THEN reads[arrived[2]]
               ELSE IF n = "events" THEN reads[arrived[3]]
               ELSE reads[n]]

\* What the destructuring of await Promise.all([...]) binds to each name: the
\* result of the read in that name's position, whatever order they returned in.
PromiseAll(reads, order) == reads

\* The last reads return and Promise.all resolves: the four results are
\* assigned to state.content, and loadImages sends the listing request with
\* the credentials now in memory.
LoadAssign(s) ==
    /\ ops[s].kind = "load"
    /\ ops[s].phase = "reads"
    /\ \A n \in Worked : ops[s].reads[n].st = "done"
    /\ \E rest \in [Names \ Worked -> {"ok", "notfound", "fail"}] :
          /\ \A n \in Names \ Worked : rest[n] \in ReadAnswers(ops[s].cred, n)
          /\ LET reads == [n \in Names |-> IF n \in Worked THEN ops[s].reads[n]
                                          ELSE ReadResult(n, rest[n])]
                 got == PromiseAll(reads, ops[s].order)
             IN /\ content' = [n \in Names |-> ReadEntry(got[n], FreshObj(n, ops))]
                /\ ops' = [ops EXCEPT ![s].phase = "list", ![s].cred = github,
                                      ![s].reads = reads]
                /\ heap' = Collect([n \in Names |->
                                      [heap[n] EXCEPT ![FreshObj(n, ops)] = got[n].body]],
                                   content', ops')
                /\ lastRead' = [n \in Names |-> reads[n].res]
    /\ UNCHANGED << github, localStorage, screen, images, syncStatus, toast, formId, formOpen,
                    deleteContext, now, store, storeImages, probed, formStats, focus, loader, shown, started >>

\* The store answers the listing of images/.
ListOutcomes(c) ==
    {"fail"} \cup (IF c \notin ValidCreds THEN {}
                   ELSE IF storeImages.present THEN {"ok"} ELSE {"notfound"})

ListServe(s) ==
    /\ ops[s].kind = "load"
    /\ ops[s].phase = "list"
    /\ \E out \in ListOutcomes(ops[s].cred) :
          ops' = [ops EXCEPT ![s].phase = "listed", ![s].res = out,
                             ![s].files = storeImages.files]
    /\ UNCHANGED << github, localStorage, screen, content, heap, images, syncStatus,
                    toast, formId, formOpen, deleteContext, now, store, storeImages, probed, lastRead, formStats, focus, loader, shown, started >>

\* The files of images/ a session may meet, and those of them whose names
\* pass the extension filter of loadImages.
ImageNames == {"logo.png", "icon.bmp"}
ImageFilter(files) == files \cap {"logo.png"}

\* loadSettings, for the stat inputs: they are filled from a cached
\* configuration that has three stats or more, and left alone otherwise.
LoadSettings(config) ==
    IF config.loaded /\ Len(config.body.stats) >= StatInputs
    THEN SubSeq(config.body.stats, 1, StatInputs)
    ELSE formStats

\* loadAllContent with a check that every document was read: a null result,
\* also that of a 404, ends it in its catch.
LoadFinishStrict(s) ==
    /\ ops[s].kind = "load"
    /\ ops[s].phase = "listed"
    /\ images' = IF ops[s].res = "ok" THEN ImageFilter(ops[s].files) ELSE images
    /\ IF \A n \in Names : ops[s].reads[n].res = "ok"
       THEN /\ syncStatus' = "synced" /\ toast' = toast
            /\ formStats' = LoadSettings(CacheView("siteConfig"))
       ELSE /\ syncStatus' = "error" /\ toast' = [type |-> "error", msg |-> "load"]
            /\ formStats' = formStats
    /\ ops' = [ops EXCEPT ![s] = IdleOp]
    /\ UNCHANGED << github, localStorage, screen, content, heap, formId, formOpen,
                    deleteContext, now, store, storeImages, probed, lastRead, focus, loader, shown, started >>

\* loadImages returns (it keeps the listing only of an ok answer), and
\* loadAllContent ends: the status is set to synced and renderAllSections
\* fills the settings form.
LoadFinish(s) ==
    /\ ops[s].kind = "load"
    /\ ops[s].phase = "listed"
    /\ images' = IF ops[s].res = "ok" THEN ImageFilter(ops[s].files) ELSE images
    /\ syncStatus' = "synced"
    /\ formStats' = LoadSettings(CacheView("siteConfig"))
    /\ ops' = [ops EXCEPT ![s] = IdleOp]
    /\ UNCHANGED << github, localStorage, screen, content, heap, toast, formId, formOpen,
                    deleteContext, now, store, storeImages, probed, lastRead, focus, loader, shown, started >>

\* ------------------------------------------------------- record forms
\* The record forms and the delete dialog are modals over the dashboard: one
\* is open at a time, and what a closed one holds is overwritten when it is
\* opened again (it is kept here as NoId).
NoModal == (\A k \in Kinds : ~formOpen[k]) /\ ~deleteContext.open

\* openNewsModal() and its two siblings, for a new record: the id field is
\* emptied.
OpenModal(k) ==
    /\ screen = "dashboard"
    /\ k = focus
    /\ NoModal
    /\ formOpen' = [formOpen EXCEPT ![k] = TRUE]
    /\ formId' = [formId EXCEPT ![k] = NoId]
    /\ UNCHANGED << github, localStorage, screen, content, heap, images, syncStatus,
                    toast, deleteContext, now, ops, store, storeImages, probed, lastRead, formStats, focus, loader, shown, started >>

\* editNews(id) and its two siblings: the record is looked up in the cache
\* and its id goes to the form.
EditRecord(k, id) ==
    /\ screen = "dashboard"
    /\ k = focus
    /\ NoModal
    /\ id \in Ids(CacheView(k).body)
    /\ formOpen' = [formOpen EXCEPT ![k] = TRUE]
    /\ formId' = [formId EXCEPT ![k] = id]
    /\ UNCHANGED << github, localStorage, screen, content, heap, images, syncStatus,
                    toast, deleteContext, now, ops, store, storeImages, probed, lastRead, formStats, focus, loader, shown, started >>

\* The user leaves the open modal (Escape, or a click outside it).
CloseModals ==
    /\ ~NoModal
    /\ formOpen' = [k \in Kinds |-> FALSE]
    /\ formId' = [k \in Kinds |-> NoId]
    /\ deleteContext' = NoDelete
    /\ UNCHANGED << github, localStorage, screen, content, heap, images, syncStatus,
                    toast, now, ops, store, storeImages, probed, lastRead, formStats, focus, loader, shown, started >>

\* A write operation as it stands after its request is sent: the body and the
\* revision the request carries, and the object the handler goes on to put in
\* the cache (0: one of its own). For the record: the record or the id the
\* handler was called with, the cache entry as it found it, and how the last
\* read of the document had ended.
WriteOp(kind, n, body, obj, rec) ==
    [kind |-> kind, name |-> n, phase |-> "sent", cred |-> github,
     sha |-> content[n].sha, body |-> body, obj |-> obj, res |-> "", newSha |-> 0,
     rec |-> rec, pre |-> CacheView(n), seen |-> lastRead[n]]

\* saveNews, saveProject, saveEvent up to the await: the record is put into
\* the array taken from the cache (the cached array itself, or a new one when
\* the entry is null) and the whole document is sent with the cached revision.
\* The clock is read only here, and only for a record without an id; t is
\* what it shows then.
SaveRecord(k, title, t) ==
    /\ started < MaxOps
    /\ started' = started + 1
    /\ screen = "dashboard"
    /\ k = focus
    /\ formOpen[k]
    /\ FreeSlots # {}
    /\ t \in (IF formId[k] = NoId THEN now..MaxClock ELSE {now})
    /\ now' = t
    /\ LET rec == [id |-> RecordId(k, t), title |-> title]
           body == Upsert(CacheView(k).body, rec)
       IN /\ ops' = [ops EXCEPT ![NewSlot] = WriteOp("save", k, body, content[k].obj, rec)]
          /\ heap' = IF content[k].obj = 0 THEN heap
                     ELSE [heap EXCEPT ![k][content[k].obj] = body]
    /\ syncStatus' = "saving"
    /\ UNCHANGED << github, localStorage, screen, content, images, toast, formId, formOpen,
                    deleteContext, store, storeImages, probed, lastRead, formStats, focus, loader, shown >>

\* saveSettings up to the await: the form's values are written into the cached
\* configuration object (or a new one) and the document is sent.
SaveSettings(name) ==
    /\ started < MaxOps
    /\ started' = started + 1
    /\ screen = "dashboard"
    /\ focus = "siteConfig"
    /\ FreeSlots # {}
    /\ LET body == ApplySettings(CacheView("siteConfig").body, name)
           obj == content["siteConfig"].obj
       IN /\ ops' = [ops EXCEPT ![NewSlot] = WriteOp("settings", "siteConfig", body, obj,
                                                   [id |-> NoId, title |-> name])]
          /\ heap' = IF obj = 0 THEN heap ELSE [heap EXCEPT !["siteConfig"][obj] = body]
    /\ syncStatus' = "saving"
    /\ UNCHANGED << github, localStorage, screen, content, images, toast, formId, formOpen,
                    deleteContext, now, store, storeImages, probed, lastRead, formStats, focus, loader, shown >>

\* confirmDelete(type, id), from the delete button of a record of the grid.
ConfirmDelete(k, id) ==
    /\ screen = "dashboard"
    /\ k = focus
    /\ NoModal
    /\ id \in Ids(CacheView(k).body)
    /\ deleteContext' = [type |-> k, id |-> id, open |-> TRUE]
    /\ UNCHANGED << github, localStorage, screen, content, heap, images, syncStatus,
                    toast, formId, formOpen, now, ops, store, storeImages, probed, lastRead, formStats, focus, loader, shown, started >>

\* executeDelete with splice on the cached array for filter: the record is
\* taken out of the cache before the request is sent.
ExecuteDeleteInPlace ==
    /\ started < MaxOps
    /\ started' = started + 1
    /\ screen = "dashboard"
    /\ deleteContext.open
    /\ content[deleteContext.type].obj # 0
    /\ FreeSlots # {}
    /\ LET k == deleteContext.type
           body == RemoveById(CacheView(k).body, deleteContext.id)
       IN /\ ops' = [ops EXCEPT ![NewSlot] =
                       WriteOp("delete", k, body, 0, [id |-> deleteContext.id, title |-> NoText])]
          /\ heap' = [heap EXCEPT ![k][content[k].obj] = body]
    /\ syncStatus' = "saving"
    /\ UNCHANGED << github, localStorage, screen, content, images, toast, formId, formOpen,
                    deleteContext, now, store, storeImages, probed, formStats, lastRead, focus, loader, shown >>

\* executeDelete up to the await: a filtered copy of the cached array is sent
\* with the cached revision.
ExecuteDelete ==
    /\ started < MaxOps
    /\ started' = started + 1
    /\ screen = "dashboard"
    /\ deleteContext.open
    /\ content[deleteContext.type].obj # 0
    /\ FreeSlots # {}
    /\ LET k == deleteContext.type
           body == RemoveById(CacheView(k).body, deleteContext.id)
       IN ops' = [ops EXCEPT ![NewSlot] =
                    WriteOp("delete", k, body, 0, [id |-> deleteContext.id, title |-> NoText])]
    /\ syncStatus' = "saving"
    /\ UNCHANGED << github, localStorage, screen, content, heap, images, toast, formId, formOpen,
                    deleteContext, now, store, storeImages, probed, lastRead, formStats, focus, loader, shown >>

\* executeDelete on a null entry: reading .data of null throws inside the try,
\* no request is sent and the catch reports the error.
ExecuteDeleteNull ==
    /\ started < MaxOps
    /\ started' = started + 1
    /\ screen = "dashboard"
    /\ deleteContext.open
    /\ content[deleteContext.type].obj = 0
    /\ toast' = [type |-> "error", msg |-> "TypeError"]
    /\ syncStatus' = "error"
    /\ UNCHANGED << github, localStorage, screen, content, heap, images, formId, formOpen,
                    deleteContext, now, ops, store, storeImages, probed, lastRead, formStats, focus, loader, shown >>

\* ---------------------------------------------------------- saveContent
IsWrite(s) == ops[s].kind \in {"save", "settings", "delete"}

\* saveContent without its test of response.ok: every answer is returned to
\* the handler as the result of the write.
ResponseOkAlways(res) == res = res

\* response.ok, as saveContent tests it.
ResponseOk(res) == res = "ok"

\* The store takes the PUT: the revision matches (or the path is new and
\* none was sent), the body becomes the document's next revision.
WriteAccept(s) ==
    /\ IsWrite(s)
    /\ ops[s].phase = "sent"
    /\ ops[s].cred \in ValidCreds
    /\ StoreAccepts(ops[s].name, ops[s].sha)
    /\ store' = [store EXCEPT ![ops[s].name] = Append(@, Committed(ops[s].name, ops[s].body))]
    /\ ops' = [ops EXCEPT ![s].phase = "answered", ![s].res = "ok",
                          ![s].newSha = Rev(ops[s].name) + 1]
    /\ UNCHANGED << github, localStorage, screen, content, heap, images, syncStatus,
                    toast, formId, formOpen, deleteContext, now, storeImages, probed, lastRead, formStats, focus, loader, shown, started >>

\* The store refuses the PUT because the revision does not match.
WriteConflict(s) ==
    /\ IsWrite(s)
    /\ ops[s].phase = "sent"
    /\ ops[s].cred \in ValidCreds
    /\ ~StoreAccepts(ops[s].name, ops[s].sha)
    /\ ops' = [ops EXCEPT ![s].phase = "answered", ![s].res = "conflict"]
    /\ UNCHANGED << github, localStorage, screen, content, heap, images, syncStatus,
                    toast, formId, formOpen, deleteContext, now, store, storeImages, probed, lastRead, formStats, focus, loader, shown, started >>

\* The PUT fails otherwise: an error status (the credentials are refused, the
\* store is down) or a transport error; the document is not written.
WriteFail(s) ==
    /\ IsWrite(s)
    /\ ops[s].phase = "sent"
    /\ ops' = [ops EXCEPT ![s].phase = "answered", ![s].res = "fail"]
    /\ UNCHANGED << github, localStorage, screen, content, heap, images, syncStatus,
                    toast, formId, formOpen, deleteContext, now, store, storeImages, probed, lastRead, formStats, focus, loader, shown, started >>

\* saveContent returned: the handler replaces the cache entry by the object it
\* holds and the revision of the answer, and reports success.
WriteConfirmed(s) ==
    /\ IsWrite(s)
    /\ ops[s].phase = "answered"
    /\ ResponseOk(ops[s].res)
    /\ LET n == ops[s].name
           left == [ops EXCEPT ![s] = IdleOp]
           obj == IF ops[s].obj # 0 THEN ops[s].obj ELSE FreshObj(n, left)
       IN /\ ops' = left
          /\ content' = [content EXCEPT ![n] = [obj |-> obj, sha |-> ops[s].newSha]]
          /\ heap' = Collect(IF ops[s].obj # 0 THEN heap
                             ELSE [heap EXCEPT ![n][obj] = ops[s].body],
                             content', left)
    /\ deleteContext' = IF ops[s].kind = "delete" THEN NoDelete ELSE deleteContext
    /\ formOpen' = IF ops[s].kind = "save"
                   THEN [formOpen EXCEPT ![ops[s].name] = FALSE] ELSE formOpen
    /\ formId' = IF ops[s].kind = "save"
                 THEN [formId EXCEPT ![ops[s].name] = NoId] ELSE formId
    /\ toast' = [type |-> "success", msg |-> ""]
    /\ syncStatus' = "synced"
    /\ UNCHANGED << github, localStorage, screen, images, now, store, storeImages,
                    probed, lastRead, formStats, focus, loader, shown, started >>

\* The message of the error saveContent throws for an answer that is not ok:
\* the message of the answer's body (here the name of what went wrong), or
\* the fallback when the body has none.
GenericMessage == "Failed to save content"
ErrorMessages(res) == {res, GenericMessage}

\* A handler whose catch sends the request again.
WriteRejectedRetry(s) ==
    /\ IsWrite(s)
    /\ ops[s].phase = "answered"
    /\ ~ResponseOk(ops[s].res)
    /\ ops' = [ops EXCEPT ![s].phase = "sent", ![s].res = ""]
    /\ UNCHANGED << github, localStorage, screen, content, heap, images, syncStatus, toast,
                    formId, formOpen, deleteContext, now, store, storeImages, probed, lastRead,
                    formStats, focus, loader, shown, started >>

\* A handler without its catch: the error of saveContent ends the handler and
\* nothing is shown.
WriteRejectedUncaught(s) ==
    /\ IsWrite(s)
    /\ ops[s].phase = "answered"
    /\ ~ResponseOk(ops[s].res)
    /\ ops' = [ops EXCEPT ![s] = IdleOp]
    /\ heap' = Collect(heap, content, ops')
    /\ UNCHANGED << github, localStorage, screen, content, images, syncStatus, toast, formId,
                    formOpen, deleteContext, now, store, storeImages, probed, lastRead,
                    formStats, focus, loader, shown, started >>

\* saveContent threw: the catch of the handler shows the error's message and
\* sets the status to error.
WriteRejected(s) ==
    /\ IsWrite(s)
    /\ ops[s].phase = "answered"
    /\ ~ResponseOk(ops[s].res)
    /\ ops' = [ops EXCEPT ![s] = IdleOp]
    /\ heap' = Collect(heap, content, ops')
    /\ \E m \in ErrorMessages(ops[s].res) : toast' = [type |-> "error", msg |-> m]
    /\ syncStatus' = "error"
    /\ UNCHANGED << github, localStorage, screen, content, images, formId, formOpen,
                    deleteContext, now, store, storeImages, probed, lastRead, formStats, focus, loader, shown, started >>

\* ------------------------------------------------------- the environment
\* Somebody else commits to a document path.
ExternalEdit(n) ==
    /\ started < MaxOps
    /\ started' = started + 1
    /\ n = focus
    /\ store' = [store EXCEPT ![n] =
                    Append(@, ExternalBody(n, IF Exists(n) THEN RemoteBody(n)
                                              ELSE EmptyBody(n)))]
    /\ UNCHANGED << github, localStorage, screen, content, heap, images, syncStatus,
                    toast, formId, formOpen, deleteContext, now, ops, storeImages, probed, lastRead, formStats, focus, loader, shown >>

Next ==
    \/ PageLoad
    \/ \E c \in Creds : HandleLogin(c)
    \/ \E s \in Slots : LoginOk(s)
    \/ \E s \in Slots : LoginFail(s)
    \/ Logout
    \/ \E s \in Slots, n \in Names : ReadDone(s, n)
    \/ \E s \in Slots : LoadAssign(s)
    \/ \E s \in Slots : ListServe(s)
    \/ \E s \in Slots : LoadFinish(s)
    \/ \E k \in Kinds : OpenModal(k)
    \/ \E k \in Kinds, id \in 1..ExtRecord.id : EditRecord(k, id)
    \/ CloseModals
    \/ \E k \in Kinds, title \in Titles, t \in Epoch..MaxClock : SaveRecord(k, title, t)
    \/ \E t \in Titles : SaveSettings(t)
    \/ \E k \in Kinds, id \in 1..ExtRecord.id : ConfirmDelete(k, id)
    \/ ExecuteDelete
    \/ ExecuteDeleteNull
    \/ \E s \in Slots : WriteAccept(s)
    \/ \E s \in Slots : WriteConflict(s)
    \/ \E s \in Slots : WriteFail(s)
    \/ \E s \in Slots : WriteConfirmed(s)
    \/ \E s \in Slots : WriteRejected(s)
    \/ \E n \in Names : ExternalEdit(n)

Spec == Init /\ [][Next]_vars

\* ------------------------------------------------ the engine on any document
\* The records a collection document may hold when the session reads it (the
\* same one twice, too): the seed record, and one whose id the clock reaches.
EngineRecords == { SeedRecord, [id |-> MaxClock, title |-> SeedText] }
EngineDocs == UNION { [1..l -> EngineRecords] : l \in 0..MaxLen }

\* The dashboard after login and a Load-all that found the news collection
\* holding any of these documents (saveProject and saveEvent are saveNews
\* with other names).
InitEngine ==
    /\ github = "good"
    /\ localStorage = "good"
    /\ screen = "dashboard"
    /\ focus = "news"
    /\ shown = NothingShown
    /\ loader = NoLoader
    /\ \E S \in EngineDocs :
          /\ store = [n \in Names |-> << IF n = focus THEN S ELSE SeedBody(n) >>]
          /\ heap = [n \in Names |-> [i \in Objs |->
                       IF i = 1 THEN (IF n = focus THEN S ELSE SeedBody(n))
                       ELSE EmptyBody(n)]]
    /\ content = [n \in Names |-> [obj |-> 1, sha |-> 1]]
    /\ images = {"logo.png"}
    /\ syncStatus = "synced"
    /\ toast = NoToast
    /\ formId = [k \in Kinds |-> NoId]
    /\ formOpen = [k \in Kinds |-> FALSE]
    /\ deleteContext = NoDelete
    /\ now = Epoch
    /\ ops = [s \in Slots |-> IdleOp]
    /\ storeImages = [present |-> TRUE, files |-> {"logo.png"}]
    /\ probed = {"good"}
    /\ formStats = SeedStats
    /\ lastRead = [n \in Names |-> "ok"]
    /\ started = 0

\* The user edits the collection: record forms, deletes, and their writes.
NextEngine ==
    \/ \E k \in Kinds : OpenModal(k)
    \/ \E k \in Kinds, id \in 1..ExtRecord.id : EditRecord(k, id)
    \/ CloseModals
    \/ \E k \in Kinds, title \in Titles, t \in Epoch..MaxClock : SaveRecord(k, title, t)
    \/ \E k \in Kinds, id \in 1..ExtRecord.id : ConfirmDelete(k, id)
    \/ ExecuteDelete
    \/ \E s \in Slots : WriteAccept(s)
    \/ \E s \in Slots : WriteConflict(s)
    \/ \E s \in Slots : WriteFail(s)
    \/ \E s \in Slots : WriteConfirmed(s)
    \/ \E s \in Slots : WriteRejected(s)

SpecEngine == InitEngine /\ [][NextEngine]_vars

\* ------------------------------------------------- two overlapping saves
\* The saves of the run in which two saves overlap.
Overlapping == 2

\* From the dashboard of InitEngine the user submits the record form twice,
\* and the store answers only when both requests have been sent.
NextOverlap ==
    \/ \E k \in Kinds : OpenModal(k)
    \/ \E k \in Kinds, id \in 1..ExtRecord.id : EditRecord(k, id)
    \/ /\ started < Overlapping
       /\ \E k \in Kinds, title \in Titles, t \in Epoch..MaxClock : SaveRecord(k, title, t)
    \/ /\ started = Overlapping
       /\ \E s \in Slots : WriteAccept(s)
    \/ /\ started = Overlapping
       /\ \E s \in Slots : WriteConflict(s)
    \/ /\ started = Overlapping
       /\ \E s \in Slots : WriteFail(s)
    \/ /\ started = Overlapping
       /\ \E s \in Slots : WriteConfirmed(s)
    \/ /\ started = Overlapping
       /\ \E s \in Slots : WriteRejected(s)

SpecOverlap == InitEngine /\ [][NextOverlap]_vars

\* ------------------------------------------------- one session, in sequence
\* No operation is in flight.
AllIdle == \A s \in Slots : ops[s].kind = "idle"

\* One session from the login on: nobody else edits the store, and the user
\* starts a save or a delete only when nothing is in flight.
NextSequential ==
    \/ \E c \in Creds : HandleLogin(c)
    \/ \E s \in Slots : LoginOk(s)
    \/ \E s \in Slots : LoginFail(s)
    \/ \E s \in Slots, n \in Names : ReadDone(s, n)
    \/ \E s \in Slots : LoadAssign(s)
    \/ \E s \in Slots : ListServe(s)
    \/ \E s \in Slots : LoadFinish(s)
    \/ \E k \in Kinds : OpenModal(k)
    \/ \E k \in Kinds, id \in 1..ExtRecord.id : EditRecord(k, id)
    \/ CloseModals
    \/ /\ AllIdle
       /\ \E k \in Kinds, title \in Titles, t \in Epoch..MaxClock : SaveRecord(k, title, t)
    \/ /\ AllIdle
       /\ \E t \in Titles : SaveSettings(t)
    \/ \E k \in Kinds, id \in 1..ExtRecord.id : ConfirmDelete(k, id)
    \/ /\ AllIdle
       /\ ExecuteDelete
    \/ /\ AllIdle
       /\ ExecuteDeleteNull
    \/ \E s \in Slots : WriteAccept(s)
    \/ \E s \in Slots : WriteConflict(s)
    \/ \E s \in Slots : WriteFail(s)
    \/ \E s \in Slots : WriteConfirmed(s)
    \/ \E s \in Slots : WriteRejected(s)

SpecSequential == Init /\ [][NextSequential]_vars

\* ------------------------------------------- settings on any configuration
\* The configurations a session may find: with or without colors.primaryLight,
\* with no stats up to MaxStats of them.
SettingsDocs ==
    { [siteName |-> SeedText, primaryLight |-> l, stats |-> [i \in 1..n |-> 1]] :
         l \in {SeedLight, Undefined}, n \in 0..MaxStats }

\* The dashboard after login and a Load-all that found any of these
\* configurations and filled the settings form from it.
InitSettings ==
    /\ github = "good"
    /\ localStorage = "good"
    /\ screen = "dashboard"
    /\ focus = "siteConfig"
    /\ shown = NothingShown
    /\ loader = NoLoader
    /\ \E doc \in SettingsDocs :
          /\ store = [n \in Names |-> << IF n = focus THEN doc ELSE SeedBody(n) >>]
          /\ heap = [n \in Names |-> [i \in Objs |->
                       IF i = 1 THEN (IF n = focus THEN doc ELSE SeedBody(n))
                       ELSE EmptyBody(n)]]
          /\ formStats = IF Len(doc.stats) >= StatInputs
                         THEN SubSeq(doc.stats, 1, StatInputs) ELSE EmptyStats
    /\ content = [n \in Names |-> [obj |-> 1, sha |-> 1]]
    /\ images = {"logo.png"}
    /\ syncStatus = "synced"
    /\ toast = NoToast
    /\ formId = [k \in Kinds |-> NoId]
    /\ formOpen = [k \in Kinds |-> FALSE]
    /\ deleteContext = NoDelete
    /\ now = Epoch
    /\ ops = [s \in Slots |-> IdleOp]
    /\ storeImages = [present |-> TRUE, files |-> {"logo.png"}]
    /\ probed = {"good"}
    /\ lastRead = [n \in Names |-> "ok"]
    /\ started = 0

\* The user saves the settings, with another site name.
NextSettings ==
    \/ \E t \in Titles : SaveSettings(t)
    \/ \E s \in Slots : WriteAccept(s)
    \/ \E s \in Slots : WriteConflict(s)
    \/ \E s \in Slots : WriteFail(s)
    \/ \E s \in Slots : WriteConfirmed(s)
    \/ \E s \in Slots : WriteRejected(s)

SpecSettings == InitSettings /\ [][NextSettings]_vars

\* ------------------------------------------------------------ the images
\* uploadImage, from the onload of the file reader up to the await: the file
\* is PUT under images/, without a revision.
UploadImage(f) ==
    /\ started < MaxOps
    /\ started' = started + 1
    /\ screen = "dashboard"
    /\ FreeSlots # {}
    /\ ops' = [ops EXCEPT ![NewSlot] =
                 [kind |-> "upload", phase |-> "sent", cred |-> github, file |-> f,
                  res |-> "", listRes |-> "", files |-> {}]]
    /\ syncStatus' = "uploading"
    /\ UNCHANGED << github, localStorage, screen, content, heap, images, toast, formId, formOpen,
                    deleteContext, now, store, storeImages, probed, formStats, lastRead, focus, loader, shown >>

\* deleteImage(path, sha), from the delete button of an image of the media
\* grid, confirmed: the DELETE is sent.
DeleteImage(f) ==
    /\ started < MaxOps
    /\ started' = started + 1
    /\ screen = "dashboard"
    /\ f \in images
    /\ FreeSlots # {}
    /\ ops' = [ops EXCEPT ![NewSlot] =
                 [kind |-> "rmimage", phase |-> "sent", cred |-> github, file |-> f,
                  res |-> "", listRes |-> "", files |-> {}]]
    /\ syncStatus' = "saving"
    /\ UNCHANGED << github, localStorage, screen, content, heap, images, toast, formId, formOpen,
                    deleteContext, now, store, storeImages, probed, formStats, lastRead, focus, loader, shown >>

IsImageOp(s) == ops[s].kind \in {"upload", "rmimage"}

\* images/ after the file f is put in it or taken out of it; a directory
\* without files does not exist.
StoreImagesAfter(kind, f) ==
    LET files == IF kind = "upload" THEN storeImages.files \cup {f}
                 ELSE storeImages.files \ {f}
    IN [present |-> files # {}, files |-> files]

\* The store takes the PUT of a file that is not there, or the DELETE of one
\* that is.
ImageWriteAccept(s) ==
    /\ IsImageOp(s)
    /\ ops[s].phase = "sent"
    /\ ops[s].cred \in ValidCreds
    /\ (ops[s].kind = "upload") = (ops[s].file \notin storeImages.files)
    /\ storeImages' = StoreImagesAfter(ops[s].kind, ops[s].file)
    /\ ops' = [ops EXCEPT ![s].phase = "answered", ![s].res = "ok"]
    /\ UNCHANGED << github, localStorage, screen, content, heap, images, syncStatus, toast,
                    formId, formOpen, deleteContext, now, store, probed, formStats, lastRead,
                    focus, loader, shown, started >>

\* The request is refused or fails in transport.
ImageWriteFail(s) ==
    /\ IsImageOp(s)
    /\ ops[s].phase = "sent"
    /\ ops' = [ops EXCEPT ![s].phase = "answered", ![s].res = "fail"]
    /\ UNCHANGED << github, localStorage, screen, content, heap, images, syncStatus, toast,
                    formId, formOpen, deleteContext, now, store, storeImages, probed, formStats,
                    lastRead, focus, loader, shown, started >>

\* The answer is ok: the handler calls loadImages, which sends the listing
\* request with the credentials now in memory.
ImageRelist(s) ==
    /\ IsImageOp(s)
    /\ ops[s].phase = "answered"
    /\ ops[s].res = "ok"
    /\ ops' = [ops EXCEPT ![s].phase = "list", ![s].cred = github]
    /\ UNCHANGED << github, localStorage, screen, content, heap, images, syncStatus, toast,
                    formId, formOpen, deleteContext, now, store, storeImages, probed, formStats,
                    lastRead, focus, loader, shown, started >>

\* The answer is not ok, or there is none: the catch reports the error.
ImageRejected(s) ==
    /\ IsImageOp(s)
    /\ ops[s].phase = "answered"
    /\ ops[s].res # "ok"
    /\ ops' = [ops EXCEPT ![s] = IdleOp]
    /\ toast' = [type |-> "error", msg |-> ops[s].res]
    /\ syncStatus' = "error"
    /\ UNCHANGED << github, localStorage, screen, content, heap, images, formId, formOpen,
                    deleteContext, now, store, storeImages, probed, formStats, lastRead, focus, loader, shown,
                    started >>

\* The store answers the listing request of the handler.
RelistServe(s) ==
    /\ IsImageOp(s)
    /\ ops[s].phase = "list"
    /\ \E out \in ListOutcomes(ops[s].cred) :
          ops' = [ops EXCEPT ![s].phase = "listed", ![s].listRes = out,
                             ![s].files = storeImages.files]
    /\ UNCHANGED << github, localStorage, screen, content, heap, images, syncStatus, toast,
                    formId, formOpen, deleteContext, now, store, storeImages, probed, formStats,
                    lastRead, focus, loader, shown, started >>

\* loadImages returns (it keeps the listing only of an ok answer) and the
\* handler reports success.
ImageConfirmed(s) ==
    /\ IsImageOp(s)
    /\ ops[s].phase = "listed"
    /\ images' = IF ops[s].listRes = "ok" THEN ImageFilter(ops[s].files) ELSE images
    /\ ops' = [ops EXCEPT ![s] = IdleOp]
    /\ toast' = [type |-> "success", msg |-> ""]
    /\ syncStatus' = "synced"
    /\ UNCHANGED << github, localStorage, screen, content, heap, formId, formOpen,
                    deleteContext, now, store, storeImages, probed, formStats, lastRead, focus, loader, shown,
                    started >>

\* The dashboard after login and a Load-all that found the seed documents and
\* one image.
InitImages ==
    /\ github = "good"
    /\ localStorage = "good"
    /\ screen = "dashboard"
    /\ focus = "news"
    /\ shown = NothingShown
    /\ loader = NoLoader
    /\ store = [n \in Names |-> << SeedBody(n) >>]
    /\ heap = [n \in Names |-> [i \in Objs |-> IF i = 1 THEN SeedBody(n) ELSE EmptyBody(n)]]
    /\ content = [n \in Names |-> [obj |-> 1, sha |-> 1]]
    /\ images = {"logo.png"}
    /\ syncStatus = "synced"
    /\ toast = NoToast
    /\ formId = [k \in Kinds |-> NoId]
    /\ formOpen = [k \in Kinds |-> FALSE]
    /\ deleteContext = NoDelete
    /\ now = Epoch
    /\ ops = [s \in Slots |-> IdleOp]
    /\ storeImages = [present |-> TRUE, files |-> {"logo.png"}]
    /\ probed = {"good"}
    /\ formStats = SeedStats
    /\ lastRead = [n \in Names |-> "ok"]
    /\ started = 0

\* The user uploads and deletes images.
NextImages ==
    \/ \E f \in ImageNames : UploadImage(f)
    \/ \E f \in ImageNames : DeleteImage(f)
    \/ \E s \in Slots : ImageWriteAccept(s)
    \/ \E s \in Slots : ImageWriteFail(s)
    \/ \E s \in Slots : ImageRelist(s)
    \/ \E s \in Slots : ImageRejected(s)
    \/ \E s \in Slots : RelistServe(s)
    \/ \E s \in Slots : ImageConfirmed(s)

SpecImages == InitImages /\ [][NextImages]_vars

\* ------------------------------------------------- operations to their end
\* What the store and the handlers do with the operation of slot s once it is
\* started: the requests are answered and the continuations run.
Progress(s) ==
    \/ LoginOk(s)
    \/ LoginFail(s)
    \/ \E n \in Names : ReadDone(s, n)
    \/ LoadAssign(s)
    \/ ListServe(s)
    \/ LoadFinish(s)
    \/ WriteAccept(s)
    \/ WriteConflict(s)
    \/ WriteFail(s)
    \/ WriteConfirmed(s)
    \/ WriteRejected(s)
    \/ ImageWriteAccept(s)
    \/ ImageWriteFail(s)
    \/ ImageRelist(s)
    \/ ImageRejected(s)
    \/ RelistServe(s)
    \/ ImageConfirmed(s)

\* One page: the user logs in, saves, deletes and uploads; every request is
\* answered and every continuation runs.
NextLive ==
    \/ \E c \in Creds : HandleLogin(c)
    \/ \E k \in Kinds : OpenModal(k)
    \/ \E k \in Kinds, title \in Titles, t \in Epoch..MaxClock : SaveRecord(k, title, t)
    \/ \E t \in Titles : SaveSettings(t)
    \/ \E k \in Kinds, id \in 1..ExtRecord.id : ConfirmDelete(k, id)
    \/ ExecuteDelete
    \/ \E f \in ImageNames : UploadImage(f)
    \/ \E s \in Slots : Progress(s)

SpecLive ==
    Init /\ [][NextLive]_vars /\ \A s \in Slots : WF_vars(Progress(s))

\* ------------------------------------------------- writing and reading back
\* The characters of the texts typed: "A", e with acute accent, the euro sign
\* (one, two and three bytes in UTF-8).
CodePoints == {65, 233, 8364}
CodecTexts == UNION { [1..l -> CodePoints] : l \in 1..MaxText }

\* The dashboard after login and a Load-all that found the seed documents.
InitCodec ==
    /\ github = "good"
    /\ localStorage = "good"
    /\ screen = "dashboard"
    /\ focus = "news"
    /\ shown = NothingShown
    /\ loader = NoLoader
    /\ store = [n \in Names |-> << SeedBody(n) >>]
    /\ heap = [n \in Names |-> [i \in Objs |-> IF i = 1 THEN SeedBody(n) ELSE EmptyBody(n)]]
    /\ content = [n \in Names |-> [obj |-> 1, sha |-> 1]]
    /\ images = {"logo.png"}
    /\ syncStatus = "synced"
    /\ toast = NoToast
    /\ formId = [k \in Kinds |-> NoId]
    /\ formOpen = [k \in Kinds |-> FALSE]
    /\ deleteContext = NoDelete
    /\ now = Epoch
    /\ ops = [s \in Slots |-> IdleOp]
    /\ storeImages = [present |-> TRUE, files |-> {"logo.png"}]
    /\ probed = {"good"}
    /\ formStats = SeedStats
    /\ lastRead = [n \in Names |-> "ok"]
    /\ started = 0

\* The user saves records with any of the texts and loads the page again.
NextCodec ==
    \/ \E k \in Kinds : OpenModal(k)
    \/ \E k \in Kinds, title \in CodecTexts, t \in Epoch..MaxClock : SaveRecord(k, title, t)
    \/ \E s \in Slots : WriteAccept(s)
    \/ \E s \in Slots : WriteFail(s)
    \/ \E s \in Slots : WriteConfirmed(s)
    \/ \E s \in Slots : WriteRejected(s)
    \/ PageLoad
    \/ \E s \in Slots, n \in Names : ReadDone(s, n)
    \/ \E s \in Slots : LoadAssign(s)
    \/ \E s \in Slots : ListServe(s)
    \/ \E s \in Slots : LoadFinish(s)

SpecCodec == InitCodec /\ [][NextCodec]_vars

\* ------------------------------------------------- the published field
\* The badge renderNewsGrid gives a record: article.published ? 'Published'
\* : 'Draft' (an absent field is falsy).
Badge(published) == IF published = "true" THEN "Published" ELSE "Draft"

\* The checkbox of the record form as openNewsModal(article) sets it:
\* article?.published !== false.
PublishedChecked(published) == published # "false"

\* Whether renderNews of the public loader keeps the record:
\* a.published !== false.
PublicKeeps(published) == published # "false"

\* renderNewsGrid draws the card of a record of the cached collection.
RenderNewsGrid(r) ==
    /\ shown' = [shown EXCEPT !.grid = [seen |-> TRUE, id |-> r.id, published |-> r.published,
                                        badge |-> Badge(r.published)]]
    /\ UNCHANGED << github, localStorage, screen, content, heap, images, syncStatus, toast,
                    formId, formOpen, deleteContext, now, ops, store, storeImages, probed,
                    formStats, lastRead, focus, loader, started >>

\* editNews(id) finds the record and openNewsModal(article) fills the form.
EditNews(r) ==
    /\ shown' = [shown EXCEPT !.form = [seen |-> TRUE, id |-> r.id, published |-> r.published,
                                        checked |-> PublishedChecked(r.published)]]
    /\ UNCHANGED << github, localStorage, screen, content, heap, images, syncStatus, toast,
                    formId, formOpen, deleteContext, now, ops, store, storeImages, probed,
                    formStats, lastRead, focus, loader, started >>

\* renderNews of the public loader filters the records of the document.
RenderNews(r) ==
    /\ shown' = [shown EXCEPT !.site = [seen |-> TRUE, id |-> r.id, published |-> r.published,
                                        rendered |-> PublicKeeps(r.published)]]
    /\ UNCHANGED << github, localStorage, screen, content, heap, images, syncStatus, toast,
                    formId, formOpen, deleteContext, now, ops, store, storeImages, probed,
                    formStats, lastRead, focus, loader, started >>

\* The dashboard after a Load-all; the news collection holds any of the
\* records, and the three consumers are shown them in turn.
InitPublished ==
    /\ github = "good"
    /\ localStorage = "good"
    /\ screen = "dashboard"
    /\ focus = "news"
    /\ shown = NothingShown
    /\ loader = NoLoader
    /\ store = [n \in Names |-> << SeedBody(n) >>]
    /\ heap = [n \in Names |-> [i \in Objs |-> IF i = 1 THEN SeedBody(n) ELSE EmptyBody(n)]]
    /\ content = [n \in Names |-> [obj |-> 1, sha |-> 1]]
    /\ images = {"logo.png"}
    /\ syncStatus = "synced"
    /\ toast = NoToast
    /\ formId = [k \in Kinds |-> NoId]
    /\ formOpen = [k \in Kinds |-> FALSE]
    /\ deleteContext = NoDelete
    /\ now = Epoch
    /\ ops = [s \in Slots |-> IdleOp]
    /\ storeImages = [present |-> TRUE, files |-> {"logo.png"}]
    /\ probed = {"good"}
    /\ formStats = SeedStats
    /\ lastRead = [n \in Names |-> "ok"]
    /\ started = 0

NextPublished ==
    \/ \E r \in ShownRecords : RenderNewsGrid(r)
    \/ \E r \in ShownRecords : EditNews(r)
    \/ \E r \in ShownRecords : RenderNews(r)

SpecPublished == InitPublished /\ [][NextPublished]_vars

\* ------------------------------------------------- the public content loader
\* if (cache[filename]): what JavaScript takes as true.
Truthy(v) == v \notin {Undefined, Null, "false"}

\* fetchContent(f) is called: a cached value is returned at once, otherwise
\* the request is sent.  known and afterFailure record what had happened to
\* f before the call.
CallFetchContent(c, f) ==
    /\ loader.calls[c].at \in {"idle", "returned"}
    /\ LET hit == Truthy(loader.cache[f])
           call == [at |-> IF hit THEN "returned" ELSE "sent",
                    file |-> f,
                    result |-> IF hit THEN loader.cache[f] ELSE Null,
                    requested |-> ~hit,
                    known |-> loader.succeeded[f],
                    afterFailure |-> f \in loader.failed]
       IN loader' = [loader EXCEPT !.calls[c] = call]
    /\ UNCHANGED << github, localStorage, screen, content, heap, images, syncStatus, toast,
                    formId, formOpen, deleteContext, now, ops, store, storeImages, probed,
                    formStats, lastRead, focus, shown, started >>

\* The response is ok and its JSON is read: the data is cached and returned.
FetchOk(c) ==
    /\ loader.calls[c].at = "sent"
    /\ loader.site[loader.calls[c].file] # NoFile
    /\ LET f == loader.calls[c].file
           data == loader.site[f]
       IN loader' = [loader EXCEPT
                        !.cache[f] = data,
                        !.calls[c].at = "returned",
                        !.calls[c].result = data,
                        !.succeeded[f] = IF @ = Undefined THEN data ELSE @,
                        !.failed = @ \ {f}]
    /\ UNCHANGED << github, localStorage, screen, content, heap, images, syncStatus, toast,
                    formId, formOpen, deleteContext, now, ops, store, storeImages, probed,
                    formStats, lastRead, focus, shown, started >>

\* The request fails, the response is not ok or its body is not JSON: the
\* catch logs the error and returns null.
FetchFailed(c) ==
    /\ loader.calls[c].at = "sent"
    /\ loader' = [loader EXCEPT
                     !.calls[c].at = "returned",
                     !.calls[c].result = Null,
                     !.failed = @ \cup {loader.calls[c].file}]
    /\ UNCHANGED << github, localStorage, screen, content, heap, images, syncStatus, toast,
                    formId, formOpen, deleteContext, now, ops, store, storeImages, probed,
                    formStats, lastRead, focus, shown, started >>

\* The site is deployed anew: a file changes, appears or goes.
SiteChange(f, d) ==
    /\ loader.site[f] # d
    /\ loader' = [loader EXCEPT !.site[f] = d]
    /\ UNCHANGED << github, localStorage, screen, content, heap, images, syncStatus, toast,
                    formId, formOpen, deleteContext, now, ops, store, storeImages, probed,
                    formStats, lastRead, focus, shown, started >>

\* A page of the site: the files hold anything, nothing is cached and no call
\* has been made.
InitLoader ==
    /\ github = NoCred
    /\ localStorage = NoCred
    /\ screen = "login"
    /\ focus = "news"
    /\ shown = NothingShown
    /\ loader \in { [NoLoader EXCEPT !.site = st] : st \in [Files -> Data \cup {NoFile}] }
    /\ store = [n \in Names |-> << SeedBody(n) >>]
    /\ heap = [n \in Names |-> [i \in Objs |-> EmptyBody(n)]]
    /\ content = [n \in Names |-> NullEntry]
    /\ images = {}
    /\ syncStatus = "init"
    /\ toast = NoToast
    /\ formId = [k \in Kinds |-> NoId]
    /\ formOpen = [k \in Kinds |-> FALSE]
    /\ deleteContext = NoDelete
    /\ now = Epoch
    /\ ops = [s \in Slots |-> IdleOp]
    /\ storeImages = [present |-> TRUE, files |-> {"logo.png"}]
    /\ probed = {}
    /\ formStats = SeedStats
    /\ lastRead = [n \in Names |-> "none"]
    /\ started = 0

NextLoader ==
    \/ \E c \in Slots, f \in Files : CallFetchContent(c, f)
    \/ \E c \in Slots : FetchOk(c)
    \/ \E c \in Slots : FetchFailed(c)
    \/ \E f \in Files, d \in Data \cup {NoFile} : SiteChange(f, d)

SpecLoader == InitLoader /\ [][NextLoader]_vars

\* ------------------------------------------------- the reads of Load-all
\* A login has just succeeded and Load-all has sent its four reads; each
\* document exists in the store or does not. The user does nothing else.
InitReads ==
    /\ github = "good"
    /\ localStorage = "good"
    /\ screen = "dashboard"
    /\ focus = "none"
    /\ shown = NothingShown
    /\ loader = NoLoader
    /\ \E present \in SUBSET Names :
          store = [n \in Names |-> IF n \in present THEN << SeedBody(n) >> ELSE << >>]
    /\ heap = [n \in Names |-> [i \in Objs |-> EmptyBody(n)]]
    /\ content = [n \in Names |-> NullEntry]
    /\ images = {}
    /\ syncStatus = "loading"
    /\ toast = NoToast
    /\ formId = [k \in Kinds |-> NoId]
    /\ formOpen = [k \in Kinds |-> FALSE]
    /\ deleteContext = NoDelete
    /\ now = Epoch
    /\ ops = [s \in Slots |-> IF s = 1 THEN LoadOp("good") ELSE IdleOp]
    /\ storeImages = [present |-> TRUE, files |-> {"logo.png"}]
    /\ probed = {"good"}
    /\ formStats = EmptyStats
    /\ lastRead = [n \in Names |-> "none"]
    /\ started = 0

\* The four reads return one by one, in any order.
NextReads ==
    \/ \E s \in Slots, n \in Names : ReadDone(s, n)
    \/ \E s \in Slots : LoadAssign(s)
    \/ \E s \in Slots : ListServe(s)
    \/ \E s \in Slots : LoadFinish(s)

SpecReads == InitReads /\ [][NextReads]_vars

\* ------------------------------------------------------------ properties
\* C1: a record save whose write is rejected by the store or fails in
\* transport leaves the cache entry of its collection with the body and the
\* revision it had when the save started.
C1_FailedSaveLeavesCache ==
    [][\A s \in Slots, n \in Names :
          (WriteRejected(s) /\ ops[s].kind = "save" /\ ops[s].name = n)
          => View(content', heap', n) = ops[s].pre]_vars

\* C2: a save or delete carrying a revision that is not the store's current
\* one is never accepted and never changes the remote document; when the
\* store answers it, the answer is a conflict, which the handler reports as an
\* error without touching the cache entry; and the remote document changes
\* only by an external edit or by a write that carries its current revision.
C2_StaleWriteRejected ==
    [][\A s \in Slots, n \in Names :
          /\ ( /\ IsWrite(s) /\ ops[s].name = n /\ ops[s].phase = "sent"
               /\ ops[s].sha # Rev(n)
               /\ ops'[s] # ops[s] /\ ops'[s].kind = ops[s].kind )
             => /\ store' = store
                /\ ops'[s].res # "ok"
                /\ ops[s].cred \in ValidCreds => ops'[s].res \in {"conflict", "fail"}
          /\ ( /\ IsWrite(s) /\ ops[s].name = n /\ ops[s].phase = "answered"
               /\ ops[s].res = "conflict"
               /\ (WriteConfirmed(s) \/ WriteRejected(s)) )
             => /\ toast'.type = "error"
                /\ syncStatus' = "error"
                /\ content'[n] = content[n]
          /\ store'[n] # store[n]
             => \/ ExternalEdit(n)
                \/ \E w \in Slots : /\ IsWrite(w) /\ ops[w].name = n
                                    /\ ops[w].sha = Rev(n)
                                    /\ store'[n] = Append(store[n], ops[w].body)]_vars

\* A stale save has been answered with a conflict and reported, and the
\* external edit is still the remote document.
C2_Witness ==
    /\ toast = [type |-> "error", msg |-> "conflict"]
    /\ \E n \in Names : /\ content[n].obj # 0
                        /\ content[n].sha < Rev(n)
                        /\ RemoteBody(n) = ExternalBody(n, store[n][content[n].sha])

\* C3: in every state each non-null cache entry holds the body the store held
\* at the cached revision.
C3_CacheMatchesStore ==
    \A n \in Names :
       content[n].obj # 0
       => /\ content[n].sha \in 1..Rev(n)
          /\ heap[n][content[n].obj] = store[n][content[n].sha]

\* C4: when a record save, a record delete or a settings save has succeeded,
\* the cache entry of its document holds the body the request carried and the
\* revision the store returned.
C4_ConfirmedWriteCached ==
    [][\A s \in Slots, n \in Names :
          (WriteConfirmed(s) /\ ops[s].name = n)
          => View(content', heap', n) =
                [loaded |-> TRUE, body |-> ops[s].body, sha |-> ops[s].newSha]]_vars

\* C5: Load-all ends in the error status, with the failure reported, when one
\* of its four reads failed hard, and in synced otherwise; the documents whose
\* reads succeeded are put in the cache either way.
C5_HardFailureEndsInError ==
    [][\A s \in Slots :
          /\ LoadFinish(s)
             => IF \E n \in Names : ops[s].reads[n].res = "fail"
                THEN syncStatus' = "error" /\ toast'.type = "error"
                ELSE syncStatus' = "synced"
          /\ LoadAssign(s)
             => \A n \in Names :
                   ops'[s].reads[n].res = "ok"
                   => View(content', heap', n) =
                         [loaded |-> TRUE, body |-> ops'[s].reads[n].body,
                          sha |-> ops'[s].reads[n].sha]]_vars

\* C6: a read of Load-all answered with a 404 leaves the document as the
\* empty default; Load-all ends synced, with nothing reported, when every read
\* was answered ok or 404; and the first record save after it sends that one
\* record without a revision, which creates the remote document holding
\* exactly that record.
C6_NotFoundIsEmptyDefault ==
    [][\A s \in Slots, n \in Names :
          /\ (LoadAssign(s) /\ ops'[s].reads[n].res = "notfound")
             => View(content', heap', n) =
                   [loaded |-> FALSE, body |-> EmptyBody(n), sha |-> 0]
          /\ ( /\ ops[s].kind = "load" /\ ops[s].phase = "listed"
               /\ ops'[s].kind = "idle" /\ started' = started
               /\ \A m \in Names : ops[s].reads[m].res \in {"ok", "notfound"} )
             => syncStatus' = "synced" /\ toast' = toast
          /\ ( /\ ops[s].kind = "idle" /\ ops'[s].kind = "save" /\ ops'[s].name = n
               /\ lastRead[n] = "notfound" /\ content[n].obj = 0 )
             => ops'[s].body = << ops'[s].rec >> /\ ops'[s].sha = 0
          /\ ( /\ WriteAccept(s) /\ ops[s].kind = "save" /\ ops[s].name = n
               /\ ops[s].seen = "notfound" /\ ~ops[s].pre.loaded )
             => store'[n] = << << ops[s].rec >> >> /\ ops'[s].newSha = 1]_vars

\* Load-all found a collection missing and ended synced, and a save then
\* created it: the remote document and the cache hold the one record.
C6_Witness ==
    \E n \in Kinds :
       /\ lastRead[n] = "notfound"
       /\ \A s \in Slots : ops[s].kind = "idle"
       /\ syncStatus = "synced"
       /\ content[n] # NullEntry
       /\ content[n].sha = 1
       /\ Len(CacheView(n).body) = 1
       /\ store[n] = << CacheView(n).body >>

\* C7: every request to the store that is in flight carries credentials that
\* a probe of this page session has validated.
C7_RequestsAfterProbe ==
    \A s \in Slots :
       ( \/ ops[s].kind = "load" /\ ops[s].phase \in {"reads", "list"}
         \/ IsWrite(s) /\ ops[s].phase = "sent" )
       => ops[s].cred \in probed

\* C8: logout clears the stored and the in-memory credentials and leaves none
\* of the four cached documents and no image listing; a login that succeeds
\* starts a Load-all.
C8_LogoutDiscardsSession ==
    [][/\ Logout
          => /\ localStorage' = NoCred
             /\ github' = NoCred
             /\ \A n \in Names : content'[n] = NullEntry
             /\ images' = {}
       /\ \A s \in Slots :
             LoginOk(s) => ops'[s].kind = "load" /\ ops'[s].phase = "reads"]_vars

\* C9: a write without a revision is sent only for a document whose last read
\* in the session was answered with a 404; a save or delete started while the
\* document is not loaded, or after its read failed, sends none.
C9_CreateOnlyAfterNotFound ==
    \A s \in Slots :
       (IsWrite(s) /\ ops[s].sha = 0) => ops[s].seen = "notfound"

\* C10: saving a record r whose id no record of the collection S has gives a
\* collection of length Len(S) + 1 with r first and S, in its order, after it.
C10_NewRecordIsPrepended ==
    [][\A s \in Slots, k \in Kinds :
          ( /\ ops[s].kind = "idle" /\ ops'[s].kind = "save" /\ ops'[s].name = k
            /\ ops'[s].rec.id \notin Ids(CacheView(k).body) )
          => /\ Len(ops'[s].body) = Len(CacheView(k).body) + 1
             /\ Head(ops'[s].body) = ops'[s].rec
             /\ Tail(ops'[s].body) = CacheView(k).body]_vars

\* A save of a new record into a collection of MaxLen records is in flight.
C10_Witness ==
    \E s \in Slots :
       /\ ops[s].kind = "save"
       /\ Len(ops[s].pre.body) = MaxLen
       /\ ops[s].rec.id \notin Ids(ops[s].pre.body)
       /\ ops[s].body = << ops[s].rec >> \o ops[s].pre.body

\* C11: saving a record r whose id a record of the collection S has gives a
\* collection of the length of S with r at the index of the first record of
\* that id and every other record of S at its index.
C11_ExistingRecordIsReplaced ==
    [][\A s \in Slots, k \in Kinds :
          ( /\ ops[s].kind = "idle" /\ ops'[s].kind = "save" /\ ops'[s].name = k
            /\ ops'[s].rec.id \in Ids(CacheView(k).body) )
          => LET S == CacheView(k).body
                 at == CHOOSE i \in 1..Len(S) :
                          S[i].id = ops'[s].rec.id /\ \A j \in 1..(i - 1) : S[j].id # S[i].id
             IN /\ Len(ops'[s].body) = Len(S)
                /\ \A i \in 1..Len(S) :
                      ops'[s].body[i] = IF i = at THEN ops'[s].rec ELSE S[i]]_vars

\* A save that changes a record which is not the first of a collection of
\* MaxLen records is in flight.
C11_Witness ==
    \E s \in Slots :
       /\ ops[s].kind = "save"
       /\ Len(ops[s].pre.body) = MaxLen
       /\ ops[s].rec.id \in Ids(ops[s].pre.body)
       /\ ops[s].pre.body[1].id # ops[s].rec.id
       /\ ops[s].body # ops[s].pre.body
       /\ Len(ops[s].body) = MaxLen

\* C12: deleting the records of an id from a collection twice gives what
\* deleting them once gives, and deleting an id the collection does not have
\* gives the collection; the body a delete sends is the cached collection
\* without the records of the id, and has none of that id.
C12_DeleteIdempotent ==
    /\ \A k \in Kinds, i \in 1..ExtRecord.id :
          LET S == CacheView(k).body
          IN /\ RemoveById(RemoveById(S, i), i) = RemoveById(S, i)
             /\ i \notin Ids(S) => RemoveById(S, i) = S
    /\ \A s \in Slots :
          ops[s].kind = "delete"
          => /\ ops[s].body = RemoveById(ops[s].pre.body, ops[s].rec.id)
             /\ ops[s].rec.id \notin Ids(ops[s].body)
             /\ RemoveById(ops[s].body, ops[s].rec.id) = ops[s].body

\* The store has taken a delete that removed two records of one id from a
\* collection of MaxLen records.
C12_Witness ==
    \E s \in Slots :
       /\ ops[s].kind = "delete"
       /\ ops[s].res = "ok"
       /\ Len(ops[s].pre.body) = MaxLen
       /\ Len(ops[s].body) = MaxLen - 2
       /\ RemoteBody(ops[s].name) = ops[s].body

\* No two records of the collection S have the same id.
C13_Distinct(S) == \A i, j \in 1..Len(S) : S[i].id = S[j].id => i = j

\* C13: when the ids of the document the session started from are pairwise
\* distinct, so are those of the cached collection and of every body a save
\* or delete sends, after any saves and deletes; and the save of an edited
\* record carries the id the form was opened with, and leaves the collection
\* with the ids it had.
C13_IdsStayDistinct ==
    /\ [](\A k \in Kinds :
             (Exists(k) /\ C13_Distinct(store[k][1]))
             => /\ C13_Distinct(CacheView(k).body)
                /\ \A s \in Slots :
                      (ops[s].kind \in {"save", "delete"} /\ ops[s].name = k)
                      => C13_Distinct(ops[s].body))
    /\ [][\A s \in Slots, k \in Kinds :
             ( /\ ops[s].kind = "idle" /\ ops'[s].kind = "save" /\ ops'[s].name = k
               /\ formId[k] # NoId )
             => /\ ops'[s].rec.id = formId[k]
                /\ formId[k] \in Ids(CacheView(k).body)
                      => Ids(ops'[s].body) = Ids(CacheView(k).body)]_vars

\* From a document of MaxLen records with distinct ids, a write has been
\* confirmed, and the save of the seed record, opened for editing (the clock
\* never shows its id), is in flight.
C13_Witness ==
    \E k \in Kinds, s \in Slots :
       /\ C13_Distinct(store[k][1])
       /\ Len(store[k][1]) = MaxLen
       /\ content[k].obj # 0
       /\ content[k].sha >= 2
       /\ ops[s].kind = "save"
       /\ ops[s].name = k
       /\ ops[s].rec.id = SeedRecord.id
       /\ ops[s].rec.id \in Ids(ops[s].pre.body)
       /\ ops[s].pre.sha >= 2

\* C14: a record created without an id of its own (the form's id field is
\* empty) gets an id that no record of its collection has, so each creation
\* adds a record, also when two creations read the same clock value.
C14_CreatedIdIsFresh ==
    [][\A s \in Slots, k \in Kinds :
          ( /\ ops[s].kind = "idle" /\ ops'[s].kind = "save" /\ ops'[s].name = k
            /\ formId[k] = NoId )
          => /\ ops'[s].rec.id \notin Ids(CacheView(k).body)
             /\ Len(ops'[s].body) = Len(CacheView(k).body) + 1]_vars

\* C15: a settings save whose write is answered with a conflict or fails
\* otherwise leaves the cached site configuration with the body and the
\* revision it had when saveSettings was called.
C15_FailedSettingsLeaveCache ==
    [][\A s \in Slots :
          (WriteRejected(s) /\ ops[s].kind = "settings")
          => View(content', heap', "siteConfig") = ops[s].pre]_vars

\* C16: a settings save in which the user changed the site name only, once
\* it has succeeded, has changed that field only: every other field of the
\* configuration document keeps the value the loaded document had.
C16_OtherFieldsKept ==
    [][\A s \in Slots :
          (WriteAccept(s) /\ ops[s].kind = "settings" /\ ops[s].pre.loaded)
          => /\ RemoteBody("siteConfig")' =
                   [RemoteBody("siteConfig") EXCEPT !.siteName = ops[s].rec.title]
             /\ ops[s].body.primaryLight = ops[s].pre.body.primaryLight
             /\ ops[s].body.stats = ops[s].pre.body.stats]_vars

\* C17: a record delete that fails changes the cache entry of its collection
\* neither when it is started nor when its failure is handled, leaves the
\* credentials in memory and in local storage and the dashboard as they are,
\* and leaves its slot free and the delete dialog open, so that the delete
\* can be started again.
C17_FailedDeleteLeavesSession ==
    [][\A s \in Slots, k \in Kinds :
          /\ (ops[s].kind = "idle" /\ ops'[s].kind = "delete" /\ ops'[s].name = k)
             => View(content', heap', k) = CacheView(k)
          /\ (WriteRejected(s) /\ ops[s].kind = "delete" /\ ops[s].name = k)
             => /\ View(content', heap', k) = CacheView(k)
                /\ github' = github /\ localStorage' = localStorage /\ screen' = screen
                /\ ops'[s] = IdleOp
                /\ deleteContext' = deleteContext
                /\ toast'.type = "error"]_vars

\* The store has answered a delete with a conflict, and the cache still holds
\* the record with the revision the delete carried.
C17_Witness ==
    \E s \in Slots :
       /\ ops[s].kind = "delete"
       /\ ops[s].phase = "answered"
       /\ ops[s].res = "conflict"
       /\ github # NoCred
       /\ CacheView(ops[s].name) = ops[s].pre
       /\ ops[s].rec.id \in Ids(CacheView(ops[s].name).body)

\* C18: the document the store holds after a successful write is the body
\* the write carried, and a read answered with a document returns the body
\* the store holds at the revision it returns: a read after a write gives the
\* body written and the revision the write returned.
C18_ReadReturnsWritten ==
    /\ \A s \in Slots :
          (IsWrite(s) /\ ops[s].phase = "answered" /\ ops[s].res = "ok")
          => store[ops[s].name][ops[s].newSha] = ops[s].body
    /\ \A s \in Slots, n \in Names :
          (ops[s].kind = "load" /\ ops[s].reads[n].st = "done" /\ ops[s].reads[n].res = "ok")
          => /\ ops[s].reads[n].sha \in 1..Rev(n)
             /\ ops[s].reads[n].body = store[n][ops[s].reads[n].sha]

\* C19: when the listing of images/ is answered with a 404, the session's
\* image listing is empty afterwards, whatever it was.
C19_MissingListingIsEmpty ==
    [][\A s \in Slots :
          ( \/ LoadFinish(s) /\ ops[s].res = "notfound"
            \/ ImageConfirmed(s) /\ ops[s].listRes = "notfound" )
          => images' = {}]_vars

\* C20: an upload or a delete of an image that succeeded lists the images
\* again before it reports success, and the session's listing then has the
\* uploaded file, and has not the deleted one.
C20_ListingReflectsStore ==
    [][\A s \in Slots :
          /\ ( /\ IsImageOp(s)
               /\ toast'.type = "success" /\ toast' # toast /\ ops'[s] = IdleOp )
             => ops[s].phase = "listed"
          /\ ImageConfirmed(s)
             => /\ ops[s].kind = "upload" => ops[s].file \in images'
                /\ ops[s].kind = "rmimage" => ops[s].file \notin images']_vars

\* C21: handleLogin sends one probe, which writes nothing; when the probe is
\* answered ok the credentials go to memory and to local storage and Load-all
\* starts with them; when it is not, the credentials in memory, local storage
\* and the cache are as they were and no request is sent.
C21_ProbeBeforeCredentials ==
    [][\A s \in Slots :
          /\ (ops[s].kind # "login" /\ ops'[s].kind = "login")
             => /\ \A t \in Slots \ {s} : ops'[t] = ops[t]
                /\ ops'[s].phase = "sent"
                /\ store' = store /\ storeImages' = storeImages
                /\ github' = github /\ localStorage' = localStorage
                /\ content' = content /\ heap' = heap
          /\ (ops[s].kind = "login" /\ ops'[s].kind # "login" /\ started' = started)
             => \/ /\ ops[s].cred \in ValidCreds
                   /\ github' = ops[s].cred
                   /\ localStorage' = ops[s].cred
                   /\ ops'[s] = LoadOp(ops[s].cred)
                   /\ store' = store
                \/ /\ github' = github
                   /\ localStorage' = localStorage
                   /\ content' = content /\ heap' = heap
                   /\ ops' = [ops EXCEPT ![s] = IdleOp]
                   /\ store' = store]_vars

\* A probe with good credentials was answered ok: they are in memory and in
\* local storage, the dashboard is shown and Load-all is reading.
C21_Witness ==
    /\ github = "good"
    /\ localStorage = "good"
    /\ "good" \in probed
    /\ screen = "dashboard"
    /\ \E s \in Slots : ops[s].kind = "load" /\ ops[s].phase = "reads" /\ ops[s].cred = "good"

\* C22: no read, write, listing or delete request is in flight that was sent
\* while the session held no credentials: an operation invoked then sends
\* nothing.
C22_NoRequestWithoutCredentials ==
    \A s \in Slots :
       ( \/ ops[s].kind = "load" /\ ops[s].phase \in {"reads", "list"}
         \/ IsWrite(s) /\ ops[s].phase = "sent"
         \/ IsImageOp(s) /\ ops[s].phase \in {"sent", "list"} )
       => ops[s].cred # NoCred

\* C23: whatever the order in which the four reads of Load-all return, the
\* cache holds under each name the result of the read of that name's own
\* path: the document and revision the store held for it when it was read, or
\* null when the read was answered 404 or failed.
C23_CacheByNameNotByArrival ==
    [][\A s \in Slots :
          LoadAssign(s)
          => \A n \in Names :
                /\ ops[s].reads[n].st = "done" => ops'[s].reads[n] = ops[s].reads[n]
                /\ View(content', heap', n) =
                      IF ops'[s].reads[n].res = "ok"
                      THEN [loaded |-> TRUE,
                            body |-> Fetched(n, store[n][ops'[s].reads[n].sha]),
                            sha |-> ops'[s].reads[n].sha]
                      ELSE [loaded |-> FALSE, body |-> EmptyBody(n), sha |-> 0]]_vars

\* The reads returned in the reverse of the order of the call, with unlike
\* results for the collections, and the results have been assigned.
C23_Witness ==
    \E s \in Slots :
       /\ ops[s].kind = "load"
       /\ ops[s].phase = "list"
       /\ ops[s].order = << "events", "projects", "news", "siteConfig" >>
       /\ ops[s].reads["events"].res = "ok"
       /\ ops[s].reads["projects"].res = "notfound"
       /\ ops[s].reads["news"].res = "fail"
       /\ content["events"] # NullEntry
       /\ content["news"] = NullEntry

\* C24: a conflict on a save or delete is reported to the user with an outcome
\* (notification and status) that no other failure of a write is reported
\* with.
C24_ConflictReportedDistinctly ==
    [][\A s \in Slots :
          (WriteRejected(s) /\ ops[s].res = "conflict")
          => << toast'.type, toast'.msg, syncStatus' >>
                \notin { << "error", m, "error" >> : m \in ErrorMessages("fail") }]_vars

\* C25: each consumer treats a record without a published field as it treats
\* one with published = true: the grid of the admin panel gives it the badge
\* of a published record, the record form shows it checked, and the public
\* page renders it.
C25_AbsentMeansPublished ==
    /\ (shown.grid.seen /\ shown.grid.published = Undefined)
       => shown.grid.badge = Badge("true")
    /\ (shown.form.seen /\ shown.form.published = Undefined)
       => shown.form.checked = PublishedChecked("true")
    /\ (shown.site.seen /\ shown.site.published = Undefined)
       => shown.site.rendered = PublicKeeps("true")

\* C26: at most one write request per document is in flight: no save or
\* delete of a document is started while an earlier one of the same document
\* has not resolved.
C26_OneWriteInFlight ==
    \A n \in Names :
       Cardinality({ s \in Slots : /\ IsWrite(s)
                                    /\ ops[s].name = n
                                    /\ ops[s].phase = "sent" }) <= 1

\* C27: the status indicator shows synced only while no load, save, delete or
\* upload is in flight, and once it shows error it keeps showing it until the
\* user starts another operation.
C27_StatusReflectsOperations ==
    /\ [](syncStatus = "synced"
          => \A s \in Slots : ops[s].kind \in {"idle", "login"})
    /\ [][(syncStatus = "error" /\ syncStatus' # "error")
          => started' = started + 1]_vars

\* C28: nothing is sent again: a write request (of a record save, a record
\* delete, a settings save, an image upload or an image delete) is sent only
\* by a step of the user, one request per step, and a request that has been
\* answered is not sent again, whatever the answer.
C28_NoAutomaticRetry ==
    [][\A s \in Slots :
          /\ ( /\ ops'[s].kind \in {"save", "settings", "delete", "upload", "rmimage"}
               /\ ops'[s].phase = "sent"
               /\ ops'[s] # ops[s] )
             => /\ ops[s].kind = "idle"
                /\ started' = started + 1
                /\ \A t \in Slots \ {s} : ops'[t] = ops[t]
          /\ ( /\ ops[s].kind \in {"save", "settings", "delete", "upload", "rmimage"}
               /\ ops[s].phase = "sent"
               /\ ops'[s] # ops[s] /\ ops'[s].kind = ops[s].kind )
             => ops'[s].phase = "answered"]_vars

\* A write failed and the failure has been reported; no request is in flight.
C28_Witness ==
    /\ toast = [type |-> "error", msg |-> "fail"]
    /\ syncStatus = "error"
    /\ \A s \in Slots : ops[s].kind = "idle"

\* C29: a record whose save was rejected or failed does not get into the
\* remote document by a later write of another record. With no other write
\* in flight, what a save that the store accepts adds to the records of the
\* remote document is its own record only, and a delete adds none (a record
\* of the body that is neither is left from a save that did not succeed).
C29_FailedRecordNotWrittenLater ==
    [][\A s \in Slots, k \in Kinds :
          ( /\ WriteAccept(s) /\ ops[s].name = k
            /\ \A t \in Slots \ {s} : ops[t].kind = "idle" )
          => \A i \in 1..Len(ops[s].body) :
                \/ ops[s].kind = "save" /\ ops[s].body[i] = ops[s].rec
                \/ /\ Exists(k)
                   /\ \E j \in 1..Len(RemoteBody(k)) : RemoteBody(k)[j] = ops[s].body[i]]_vars

\* C30: when two saves to the same collection have overlapped and both have
\* resolved, the cache entry holds exactly the records of the remote document
\* and the revision the store now has.
C30_OverlappingSavesConverge ==
    \A k \in Kinds :
       ( /\ k = focus
         /\ started = Overlapping
         /\ \A s \in Slots : ops[s].kind = "idle" )
       => /\ { CacheView(k).body[i] : i \in 1..Len(CacheView(k).body) }
                = { RemoteBody(k)[j] : j \in 1..Len(RemoteBody(k)) }
          /\ content[k].sha = Rev(k)

\* C31: when Load-all assigns its results, a cache entry that a confirmed
\* write made after the read of its document was answered is not replaced by
\* what that read returned: the entry keeps a revision that is not older.
C31_LoadKeepsConfirmedWrite ==
    [][\A s \in Slots, n \in Names :
          ( /\ LoadAssign(s)
            /\ ops[s].reads[n].st = "done"
            /\ ops[s].reads[n].res \in {"ok", "notfound"}
            /\ content[n].obj # 0
            /\ content[n].sha > ops[s].reads[n].sha )
          => /\ content'[n].obj # 0
             /\ content'[n].sha >= content[n].sha]_vars

\* C32: while the session is logged out, the answer to a request that was
\* sent before the logout changes neither a cached document nor the image
\* listing.
C32_LateAnswerLeavesSession ==
    [][(github = NoCred /\ started' = started)
       => /\ \A n \in Names : View(content', heap', n) = View(content, heap, n)
          /\ images' = images]_vars

\* C33: in one session without external edits and without overlapping
\* operations, every save, delete and settings save started after Load-all
\* has completed carries the revision the store holds for its document, so
\* the store accepts it.
C33_SequentialWritesCurrent ==
    \A s \in Slots :
       (IsWrite(s) /\ ops[s].phase = "sent")
       => /\ ops[s].sha = Rev(ops[s].name)
          /\ StoreAccepts(ops[s].name, ops[s].sha)

\* C34: once a save has been rejected with a conflict, a further save or
\* delete of that document started in the session, with no read of the
\* document in between, carries a revision that is not the store's, so it is
\* rejected too. (No document is read again in the runs of the engine.)
C34_ConflictPersistsUntilReload ==
    [][\A s \in Slots, k \in Kinds :
          ( /\ toast = [type |-> "error", msg |-> "conflict"]
            /\ ops[s].kind = "idle"
            /\ ops'[s].kind \in {"save", "delete"}
            /\ ops'[s].name = k )
          => ~StoreAccepts(k, ops'[s].sha)]_vars

\* The records of S whose id is not id are the records of R, in the order of S.
C35_Rest(S, id, R) ==
    LET keep == { i \in 1..Len(S) : S[i].id # id }
    IN /\ Len(R) = Cardinality(keep)
       /\ \A i \in keep : R[Cardinality({ j \in keep : j <= i })] = S[i]

\* C35: confirmDelete notes the kind and the id it is given; the delete that
\* follows sends, for that kind, the cached collection without the records of
\* that id, the others in their order; when the store has accepted it and the
\* delete is confirmed, the cache entry holds that collection, and neither
\* step changes another collection or the site configuration, in the store
\* or in the cache.
C35_DeleteRemovesExactly ==
    [][/\ \A k \in Kinds, id \in 1..ExtRecord.id :
             ConfirmDelete(k, id) => deleteContext' = [type |-> k, id |-> id, open |-> TRUE]
       /\ \A s \in Slots :
             /\ (ops[s].kind = "idle" /\ ops'[s].kind = "delete")
                => /\ deleteContext.open
                   /\ ops'[s].name = deleteContext.type
                   /\ C35_Rest(CacheView(deleteContext.type).body, deleteContext.id,
                               ops'[s].body)
                   /\ content' = content /\ heap' = heap /\ store' = store
             /\ (WriteAccept(s) /\ ops[s].kind = "delete")
                => /\ RemoteBody(ops[s].name)' = ops[s].body
                   /\ \A n \in Names \ {ops[s].name} : store'[n] = store[n]
             /\ (WriteConfirmed(s) /\ ops[s].kind = "delete")
                => /\ C35_Rest(ops[s].pre.body, ops[s].rec.id,
                               View(content', heap', ops[s].name).body)
                   /\ \A n \in Names \ {ops[s].name} :
                         View(content', heap', n) = View(content, heap, n)]_vars

\* A collection of two records with unlike ids has lost one of them by a
\* confirmed delete: the store and the cache hold the other.
C35_Witness ==
    \E k \in Kinds :
       /\ Rev(k) = 2
       /\ Len(store[k][1]) = 2
       /\ store[k][1][1].id # store[k][1][2].id
       /\ Len(store[k][2]) = 1
       /\ content[k].sha = 2
       /\ CacheView(k).body = store[k][2]
       /\ toast.type = "success"
       /\ \A s \in Slots : ops[s].kind = "idle"

\* C36: when the store answers every request, every load, save, delete and
\* upload comes to its end: a status of loading, saving or uploading leads to
\* synced or error; and a write or upload that failed ends in its handler,
\* which shows the error and sets the status to error.
C36_OperationsTerminate ==
    /\ (syncStatus \in {"loading", "saving", "uploading"})
          ~> (syncStatus \in {"synced", "error"})
    /\ [][\A s \in Slots :
             ( /\ ops[s].kind \in {"save", "settings", "delete", "upload", "rmimage"}
               /\ ops[s].phase = "answered"
               /\ ops[s].res # "ok"
               /\ ops'[s].kind = "idle" )
             => syncStatus' = "error" /\ toast'.type = "error"]_vars

\* An upload has come to its end: the file is in the store, success is shown
\* and nothing is in flight.
C36_Witness ==
    /\ "icon.bmp" \in storeImages.files
    /\ syncStatus = "synced"
    /\ toast.type = "success"
    /\ \A s \in Slots : ops[s].kind = "idle"

\* C37: in the public content loader a call of fetchContent(f) made after
\* fetchContent(f) has succeeded returns the data of that success and sends no
\* request; a call made after a failed fetch of a file never fetched sends a
\* request; and a failed fetch returns null and leaves the cache as it is.
C37_FetchedOnceThenCached ==
    /\ [](\A c \in Slots :
            loader.calls[c].at # "idle"
            => /\ loader.calls[c].known # Undefined
                  => /\ ~loader.calls[c].requested
                     /\ loader.calls[c].at = "returned"
                     /\ loader.calls[c].result = loader.calls[c].known
               /\ (loader.calls[c].afterFailure /\ loader.calls[c].known = Undefined)
                  => loader.calls[c].requested)
    /\ [][\A c \in Slots :
             FetchFailed(c)
             => /\ loader'.calls[c].result = Null
                /\ loader'.cache = loader.cache]_vars

====
